---- MODULE Spec2Model ----
(***************************************************************************)
(* pg1000cc: translation of Roland PG-1000 SysEx slider messages into MIDI *)
(* Control Change messages (src/src/main.rs).                              *)
(*                                                                         *)
(* The model covers MidiRange, Slider, ControlMessage, Pg1000SysExMessage  *)
(* and Mapper.  Port selection, connection setup and console output are    *)
(* left out.  The MidiOutputConnection is the environment: every           *)
(* port.send call either accepts the bytes or returns an error.            *)
(***************************************************************************)
EXTENDS Integers, Sequences, FiniteSets, TLC

VARIABLES
    phase,          \* "start" before Mapper::new, "mapping" while the input
                    \* callback owns the Mapper, "aborted" after unwrap() panicked
    sliders,        \* Mapper.sliders : HashMap<SysExId, Slider>
    channel,        \* Mapper.channel : u8
    event_count,    \* Mapper.event_count : u64
    cc_event_count, \* Mapper.cc_event_count : u64
    port,           \* Mapper.port: every send call the connection received
    inbox,          \* history: the messages the input callback was invoked with
    last,           \* history: the locals of the latest Mapper::map call
    call,           \* a call of one of the pure functions and its arguments (or NoCall)
    ret             \* the value that call returned

vars == <<phase, sliders, channel, event_count, cc_event_count, port, inbox,
          last, call, ret>>

mapperVars == <<phase, sliders, channel, event_count, cc_event_count, port,
                inbox, last>>

---------------------------------------------------------------------------
(* Integer types and casts                                                 *)

U8 == 0 .. 255

\* type MidiValue = i8
MidiValue == -128 .. 127

\* `x as MidiValue` for a u8 x: the same bit pattern read as two's complement
AsMidiValue(b) == IF b >= 128 THEN b - 256 ELSE b

\* `x as u8` for an i8 x
AsU8(v) == IF v < 0 THEN v + 256 ELSE v

RECURSIVE BitAnd(_, _)
\* a & b on non-negative bit patterns
BitAnd(a, b) ==
    IF a = 0 \/ b = 0 THEN 0
    ELSE (a % 2) * (b % 2) + 2 * BitAnd(a \div 2, b \div 2)

RECURSIVE BitOr(_, _)
\* a | b on non-negative bit patterns
BitOr(a, b) ==
    IF a = 0 THEN b
    ELSE IF b = 0 THEN a
    ELSE (IF a % 2 = 1 \/ b % 2 = 1 THEN 1 ELSE 0)
         + 2 * BitOr(a \div 2, b \div 2)

\* a & b for i8 operands: the AND of the two's complement bit patterns
BitAndI8(a, b) == AsMidiValue(BitAnd(AsU8(a), AsU8(b)))

---------------------------------------------------------------------------
(* u64 counters.  A u64 is kept as four 16-bit limbs, least significant    *)
(* first, so that the full width is represented and the carry out of bit   *)
(* 63 is what decides the wrap.                                            *)

LimbBase == 2 ^ 16

U64Zero == <<0, 0, 0, 0>>

\* u64::MAX
U64Max == <<LimbBase - 1, LimbBase - 1, LimbBase - 1, LimbBase - 1>>

\* a small natural number as a u64
U64Of(n) == <<n % LimbBase, n \div LimbBase, 0, 0>>

RECURSIVE AddLimbs(_, _, _)
\* ripple-carry addition of carry c into limbs i.. of x; the result is the
\* remaining limbs followed by the final carry
AddLimbs(x, i, c) ==
    IF i > Len(x) THEN <<c>>
    ELSE LET s == x[i] + c
         IN  <<s % LimbBase>> \o AddLimbs(x, i + 1, s \div LimbBase)

\* A counter stuck at u64::MAX (saturating instead of wrapping)
SaturatingAdd(x, n) ==
    LET r == AddLimbs(x, 1, n)
    IN  IF r[5] = 1 THEN <<U64Max, TRUE>> ELSE <<SubSeq(r, 1, 4), FALSE>>

\* u64::overflowing_add(x, n): <<wrapped sum, overflow flag>>
OverflowingAdd(x, n) ==
    LET r == AddLimbs(x, 1, n)
    IN  <<SubSeq(r, 1, 4), r[5] = 1>>

---------------------------------------------------------------------------
(* MidiRange.  The f64 intermediate values are kept as exact fractions     *)
(* num/den.  Every operand is an i8 and every width is at most 127, so an  *)
(* exact quotient that is not an integer is at least 1/127 away from one,  *)
(* far more than the rounding error of two f64 operations, and a quotient  *)
(* that is an integer comes from a `relative` that is itself an integer    *)
(* for the widths 100 and 50 of the registry, which f64 holds exactly:     *)
(* truncating the exact fraction gives what the f64 code gives.            *)

MidiRangeNew(lo, hi) == [lo |-> lo, hi |-> hi]

\* MidiRange::width
Width(self) == self.hi - self.lo

\* n / d truncated toward zero (d > 0)
TruncDiv(n, d) == IF n >= 0 THEN n \div d ELSE -((-n) \div d)

\* Rounding to nearest instead of truncating
RoundF64AsMidiValue(x) ==
    LET q == TruncDiv(2 * x.num + x.den, 2 * x.den)
    IN  IF q > 127 THEN 127 ELSE IF q < -128 THEN -128 ELSE q

\* `x as MidiValue` for an f64 x: truncation toward zero, saturating at the
\* bounds of i8
F64AsMidiValue(x) ==
    LET q == TruncDiv(x.num, x.den)
    IN  IF q > 127 THEN 127 ELSE IF q < -128 THEN -128 ELSE q

\* MidiRange::relative_to_absolute
RelativeToAbsolute(self, relative) ==
    F64AsMidiValue([num |-> self.lo * relative.den + relative.num * Width(self),
                    den |-> relative.den])

\* MidiRange::value_in_other_range
ValueInOtherRange(self, value, other_range) ==
    LET relative == [num |-> value - self.lo, den |-> Width(self)]
    IN  RelativeToAbsolute(other_range, relative)

---------------------------------------------------------------------------
(* Slider                                                                  *)

SliderNew(sysex_id, cc_id, sysex_range, cc_range) ==
    [sysex_id |-> sysex_id, cc_id |-> cc_id,
     sysex_range |-> sysex_range, cc_range |-> cc_range]

\* Slider::sysex_value_as_cc_value
SysexValueAsCcValue(self, value) ==
    ValueInOtherRange(self.sysex_range, value, self.cc_range)

---------------------------------------------------------------------------
(* ControlMessage                                                          *)

ControlMessageNew(cc, value, ch) == [cc |-> cc, value |-> value, channel |-> ch]

\* The channel nibble taken without masking
UnmaskedToBytes(self) ==
    <<BitOr(\hB0, self.channel) % 256,
      BitAnd(self.cc, \h7F),
      AsU8(BitAndI8(self.value, \h7F))>>

\* ControlMessage::to_bytes
ToBytes(self) ==
    LET status == BitOr(\hB0, BitAnd(self.channel, \h0F))
        data1 == BitAnd(self.cc, \h7F)
        data2 == BitAndI8(self.value, \h7F)
    IN  <<status, data1, AsU8(data2)>>

---------------------------------------------------------------------------
(* Pg1000SysExMessage                                                      *)

\* Result<Self, Box<dyn Error>>
Ok(v) == [ok |-> TRUE, val |-> v, err |-> ""]
Err(e) == [ok |-> FALSE, val |-> <<>>, err |-> e]

\* The id taken from byte 7 alone
FromBytesLowIdOnly(bytes) ==
    IF Len(bytes) # 11 THEN Err("wrong length")
    ELSE IF bytes[1] # \hF0 THEN Err("wrong status byte")
    ELSE Ok([id |-> bytes[8], value |-> AsMidiValue(bytes[9])])

\* Longer buffers accepted as frames
FromBytesAtLeast11(bytes) ==
    IF Len(bytes) < 11 THEN Err("wrong length")
    ELSE IF bytes[1] # \hF0 THEN Err("wrong status byte")
    ELSE Ok([id |-> BitOr(bytes[7] * 256, bytes[8]),
             value |-> AsMidiValue(bytes[9])])

\* Pg1000SysExMessage::from_bytes (bytes[k] of the code is bytes[k + 1] here)
FromBytes(bytes) ==
    IF Len(bytes) # 11 THEN Err("wrong length")
    ELSE IF bytes[1] # \hF0 THEN Err("wrong status byte")
    ELSE LET id == BitOr(bytes[7] * 256, bytes[8])
         IN  Ok([id |-> id, value |-> AsMidiValue(bytes[9])])

---------------------------------------------------------------------------
(* Mapper                                                                  *)

\* Mapper::FREE_CCS, the undefined CCs of the MIDI standard (FREE_CCS[k] of
\* the code is FREE_CCS[k + 1] here)
FREE_CCS ==
    <<3, 9, 14, 15, 20, 21, 22, 23, 24, 25, 26, 27, 28, 29, 30, 31, 85, 86,
      87, 88, 89, 90, 102, 103, 104, 105, 106, 107, 108, 109, 110, 111, 112,
      113, 114, 115, 116, 117, 118, 119>>

default_cc_range == MidiRangeNew(0, 127)

default_sysex_range == MidiRangeNew(0, 100)

\* The sliders.insert calls of Mapper::new in source order, each as
\* <<sysex id, index into FREE_CCS, sysex range>>
SliderTable ==
    <<<<\h0319, 0, default_sysex_range>>, <<\h0318, 1, default_sysex_range>>,
      <<\h0321, 2, default_sysex_range>>, <<\h031C, 3, default_sysex_range>>,
      <<\h0323, 4, default_sysex_range>>, <<\h0324, 5, default_sysex_range>>,
      <<\h012F, 6, default_sysex_range>>, <<\h0116, 7, default_sysex_range>>,
      <<\h0117, 8, default_sysex_range>>, <<\h0118, 9, default_sysex_range>>,
      <<\h011A, 10, default_sysex_range>>, <<\h011B, 11, default_sysex_range>>,
      <<\h011E, 12, default_sysex_range>>, <<\h011F, 13, default_sysex_range>>,
      <<\h0122, 14, default_sysex_range>>, <<\h0123, 15, default_sysex_range>>,
      <<\h012B, 16, default_sysex_range>>, <<\h012C, 17, default_sysex_range>>,
      <<\h0320, 18, default_sysex_range>>, <<\h0111, 19, default_sysex_range>>,
      <<\h0112, 20, default_sysex_range>>, <<\h0113, 21, default_sysex_range>>,
      <<\h0113, 21, default_sysex_range>>, <<\h0114, 22, default_sysex_range>>,
      <<\h0115, 23, default_sysex_range>>,
      <<\h010D, 24, MidiRangeNew(0, \h32)>>, <<\h010E, 25, MidiRangeNew(0, \h32)>>,
      <<\h010F, 26, MidiRangeNew(0, \h32)>>, <<\h0110, 27, MidiRangeNew(0, \h32)>>>>

\* The Slider that the k-th insert call stores
TableSlider(k) ==
    SliderNew(SliderTable[k][1], FREE_CCS[SliderTable[k][2] + 1],
              SliderTable[k][3], default_cc_range)

\* HashMap::insert: the map with key k bound to v, any earlier value for k
\* replaced, together with the value insert returns (the old value, if any)
HashMapInsert(map, k, v) ==
    [map |-> [x \in (DOMAIN map) \cup {k} |-> IF x = k THEN v ELSE map[x]],
     old |-> IF k \in DOMAIN map THEN <<map[k]>> ELSE <<>>]

\* A lookup that compares the low byte of the id only
HashMapGetLowByte(map, k) ==
    LET hits == {x \in DOMAIN map : x % 256 = k % 256}
    IN  IF hits = {} THEN <<>> ELSE <<map[CHOOSE x \in hits : TRUE]>>

\* HashMap::get: Some(value) as <<value>>, None as <<>>
HashMapGet(map, k) == IF k \in DOMAIN map THEN <<map[k]>> ELSE <<>>

RECURSIVE InsertSliders(_)
\* The HashMap after the first n insert calls of Mapper::new
InsertSliders(n) ==
    IF n = 0 THEN <<>>
    ELSE HashMapInsert(InsertSliders(n - 1), SliderTable[n][1], TableSlider(n)).map

\* The Mapper that run() builds: Mapper::new(1, conn_out)
RunChannel == 1

\* Mapper::new
MapperNew ==
    /\ phase = "start"
    /\ phase' = "mapping"
    /\ sliders' = InsertSliders(Len(SliderTable))
    /\ channel' = RunChannel
    /\ event_count' = U64Zero
    /\ cc_event_count' = U64Zero
    /\ port' = <<>>
    /\ UNCHANGED <<inbox, last, call, ret>>

\* A send that is issued twice
SendTwice(conn, bytes, ok, event, cc) ==
    LET e == [bytes |-> bytes, ok |-> ok, event |-> event, cc |-> cc]
    IN  conn \o <<e, e>>

\* MidiOutputConnection::send as seen from the Mapper: the connection
\* receives `bytes` and answers Ok (ok = TRUE) or Err.  `event` and `cc` are
\* history: the ordinal of the map call and whether it is the send of a
\* translated ControlMessage (line 194) or the passthrough send (line 202).
Send(conn, bytes, ok, event, cc) ==
    Append(conn, [bytes |-> bytes, ok |-> ok, event |-> event, cc |-> cc])

\* A send error that is ignored
UnwrapIgnoring(ok) == "mapping"

\* Result::unwrap on the send result: an Err panics, which ends the input
\* callback for good (the Mapper is owned by the closure and dies with it)
Unwrap(ok) == IF ok THEN "mapping" ELSE "aborted"

NoLocals == [sysex |-> <<>>, cc |-> <<>>]

\* Mapper::map, invoked by the input callback with one message; sendOk is
\* the answer of the output connection, should map call send
Map(message, sendOk) ==
    /\ phase = "mapping"
    /\ inbox' = Append(inbox, message)
    /\ event_count' = OverflowingAdd(event_count, 1)[1]
    /\ LET parsed == FromBytes(message)
           event == Len(inbox) + 1
       IN  IF parsed.ok
           THEN LET sysex == parsed.val
                    found == HashMapGet(sliders, sysex.id)
                IN  IF found # <<>>
                    THEN LET slider == found[1]
                             cc == ControlMessageNew(
                                       slider.cc_id,
                                       SysexValueAsCcValue(slider, sysex.value),
                                       channel)
                         IN  /\ port' = Send(port, ToBytes(cc), sendOk, event, TRUE)
                             /\ phase' = Unwrap(sendOk)
                             /\ cc_event_count' =
                                    IF phase' = "mapping"
                                    THEN OverflowingAdd(cc_event_count, 1)[1]
                                    ELSE cc_event_count
                             /\ last' = [sysex |-> <<sysex>>, cc |-> <<cc>>]
                    ELSE /\ last' = [sysex |-> <<sysex>>, cc |-> <<>>]
                         /\ UNCHANGED <<port, phase, cc_event_count>>
           ELSE /\ port' = Send(port, message, sendOk, event, FALSE)
                /\ phase' = Unwrap(sendOk)
                /\ last' = NoLocals
                /\ UNCHANGED cc_event_count
    /\ UNCHANGED <<sliders, channel, call, ret>>

---------------------------------------------------------------------------
(* The message source                                                      *)

\* Longest buffer the message source delivers in the model
MaxLen == 13

\* Number of messages delivered in one run of Spec
MaxEvents == 3

\* A Roland DT1 frame as the PG-1000 sends it: F0 41 <device> 14 12
\* <3 address bytes> <data> <checksum> F7.  The code reads the last two
\* address bytes as the id and the data byte as the value.
Frame(id, value) ==
    LET hi == id \div 256
        lo == id % 256
    IN  <<\hF0, \h41, \h00, \h14, \h12, \h00, hi, lo, value,
          (128 - ((hi + lo + value) % 128)) % 128, \hF7>>

\* The keys of the registry that Mapper::new builds
RegisteredIds == {SliderTable[k][1] : k \in DOMAIN SliderTable}

\* Ids with no slider: 0x0119 and 0x0219 share the low byte of 0x0319,
\* 0x1301 is 0x0113 with its bytes swapped
UnmappedIds == {\h0100, \h0119, \h0219, \h1301, \h7F7F}

NoteOn == <<\h90, 60, 100>>

\* A Control Change message that arrives from the source itself
ForeignCc == <<\hB1, 3, 63>>

\* A buffer of n bytes that starts like a frame of slider 0x0319
FramePrefix(n) ==
    [i \in 1 .. n |-> IF i <= 11 THEN Frame(\h0319, 50)[i] ELSE \hF7]

\* An 11-byte buffer that is a frame of slider 0x0319 but for its first byte
WrongStatus(b) == [Frame(\h0319, 50) EXCEPT ![1] = b]

\* The messages delivered in runs of several messages
Inbound ==
    {Frame(\h0319, 50), Frame(\h010D, 50), Frame(\h0113, 100),
     Frame(\h0319, 255), Frame(\h0119, 50),
     NoteOn, ForeignCc, <<>>, WrongStatus(\hF7)}

\* The messages delivered to a single call: every value byte for every
\* registered and unmapped id, every length but 11, every first byte but 0xF0
WideInbound ==
    {Frame(id, v) : id \in RegisteredIds \cup UnmappedIds, v \in U8}
    \cup {FramePrefix(n) : n \in (0 .. MaxLen) \ {11}}
    \cup {WrongStatus(b) : b \in U8 \ {\hF0}}
    \cup {NoteOn, ForeignCc}

\* Counter values of a Mapper that has been running for a long time
LateCounts == {U64Zero, U64Of(LimbBase - 1), U64Max}

---------------------------------------------------------------------------
(* Calls of the pure functions                                             *)

NoCall == [fn |-> "none"]

\* value_in_other_range on the range pairs of the registry, for every i8
ScaleCalls ==
    {[fn |-> "value_in_other_range", self |-> r, value |-> v,
      other_range |-> default_cc_range] :
        r \in {SliderTable[k][3] : k \in DOMAIN SliderTable}, v \in MidiValue}

\* Sample values of the three fields of a ControlMessage
CcSamples == {0, 3, 40, 119, 127, 128, 255}

ValueSamples == {-128, -1, 0, 63, 100, 127}

ChannelSamples == {0, 1, 15, 16, 177, 255}

EncodeCall(cc, value, ch) ==
    [fn |-> "to_bytes", self |-> ControlMessageNew(cc, value, ch)]

\* to_bytes: each field swept over its whole type, the others over samples
IsEncodeCall(c) ==
    \/ \E cc \in U8, v \in ValueSamples, ch \in ChannelSamples :
            c = EncodeCall(cc, v, ch)
    \/ \E cc \in CcSamples, v \in MidiValue, ch \in ChannelSamples :
            c = EncodeCall(cc, v, ch)
    \/ \E cc \in CcSamples, v \in ValueSamples, ch \in U8 :
            c = EncodeCall(cc, v, ch)

CallValueInOtherRange ==
    /\ call.fn = "value_in_other_range"
    /\ ret = <<>>
    /\ ret' = <<ValueInOtherRange(call.self, call.value, call.other_range)>>
    /\ UNCHANGED <<mapperVars, call>>

CallToBytes ==
    /\ call.fn = "to_bytes"
    /\ ret = <<>>
    /\ ret' = <<ToBytes(call.self)>>
    /\ UNCHANGED <<mapperVars, call>>

---------------------------------------------------------------------------
(* Specifications                                                          *)

\* The program from its start: run() builds the Mapper, then the input
\* callback hands it one message after the other
Init ==
    /\ phase = "start"
    /\ sliders = <<>>
    /\ channel = 0
    /\ event_count = U64Zero
    /\ cc_event_count = U64Zero
    /\ port = <<>>
    /\ inbox = <<>>
    /\ last = NoLocals
    /\ call = NoCall
    /\ ret = <<>>

Deliver ==
    /\ Len(inbox) < MaxEvents
    /\ \E message \in Inbound, sendOk \in BOOLEAN : Map(message, sendOk)

Next == MapperNew \/ Deliver

Spec == Init /\ [][Next]_vars

\* One call of Mapper::map on a Mapper that may have been running for long
InitCall ==
    /\ phase = "mapping"
    /\ sliders = InsertSliders(Len(SliderTable))
    /\ channel = RunChannel
    /\ event_count \in LateCounts
    /\ cc_event_count \in LateCounts
    /\ port = <<>>
    /\ inbox = <<>>
    /\ last = NoLocals
    /\ call = NoCall
    /\ ret = <<>>

DeliverOne ==
    /\ inbox = <<>>
    /\ \E message \in WideInbound, sendOk \in BOOLEAN : Map(message, sendOk)

NextCall == DeliverOne

SpecCall == InitCall /\ [][NextCall]_vars

\* One call of a pure function
InitPure ==
    /\ phase = "start"
    /\ sliders = <<>>
    /\ channel = 0
    /\ event_count = U64Zero
    /\ cc_event_count = U64Zero
    /\ port = <<>>
    /\ inbox = <<>>
    /\ last = NoLocals
    /\ \/ call \in ScaleCalls
       \/ IsEncodeCall(call)
    /\ ret = <<>>

NextPure == CallValueInOtherRange \/ CallToBytes

SpecPure == InitPure /\ [][NextPure]_vars

---------------------------------------------------------------------------
(* Properties of the pure functions (SpecPure)                             *)

\* C4: to_bytes returns three bytes, 0xB0 | (channel & 0x0F), cc & 0x7F and
\* value & 0x7F: the first in 0xB0..0xBF, the others at most 0x7F, and
\* {cc=40, value=100, channel=1} encodes to [0xB1, 0x28, 0x64].  The masks
\* are stated arithmetically: x & 0x0F is x mod 16, x & 0x7F is x mod 128
\* (of the two's complement pattern for a negative value).
C4_ToBytesLayout ==
    (call.fn = "to_bytes" /\ ret # <<>>) =>
        LET self == call.self
            bytes == ret[1]
        IN  /\ Len(bytes) = 3
            /\ bytes[1] = 176 + (self.channel % 16)
            /\ bytes[2] = self.cc % 128
            /\ bytes[3] = (self.value + 256) % 128
            /\ bytes[1] \in 176 .. 191
            /\ bytes[2] \in 0 .. 127
            /\ bytes[3] \in 0 .. 127
            /\ (self = [cc |-> 40, value |-> 100, channel |-> 1]
                    => bytes = <<177, 40, 100>>)

\* C4 witness: the example message has been encoded
C4_Witness ==
    /\ call = EncodeCall(40, 100, 1)
    /\ ret = << <<\hB1, \h28, \h64>> >>

\* C5: for the range pairs of the registry and every value inside the source
\* range, value_in_other_range returns
\* target_lo + floor((value - source_lo) * target_width / source_width);
\* 50 in [0,100] gives 63 in [0,127], and the bounds map to the bounds.
C5_ScaleFormula ==
    (/\ call.fn = "value_in_other_range"
     /\ ret # <<>>
     /\ call.value \in call.self.lo .. call.self.hi) =>
        LET src == call.self
            tgt == call.other_range
            v == call.value
        IN  /\ ret[1] = tgt.lo + (((v - src.lo) * (tgt.hi - tgt.lo))
                                     \div (src.hi - src.lo))
            /\ (v = src.lo => ret[1] = tgt.lo)
            /\ (v = src.hi => ret[1] = tgt.hi)
            /\ ((src = [lo |-> 0, hi |-> 100] /\ tgt = [lo |-> 0, hi |-> 127]
                 /\ v = 50) => ret[1] = 63)

\* C5 witness: 50 in [0,100] has been scaled to 63 in [0,127]
C5_Witness ==
    /\ call.fn = "value_in_other_range"
    /\ call.self = MidiRangeNew(0, 100)
    /\ call.other_range = MidiRangeNew(0, 127)
    /\ call.value = 50
    /\ ret = <<63>>

---------------------------------------------------------------------------
(* Properties of one call of Mapper::map (SpecCall)                        *)

\* y = x + 1 modulo 2^64, stated limb by limb: the limbs below some k are
\* all ones in x and zero in y, limb k is one more, the limbs above are kept
\* (k = 5: all limbs of x are ones and y is zero)
IsNextU64(x, y) ==
    \E k \in 1 .. 5 :
        /\ \A i \in 1 .. 4 :
              /\ i < k => (x[i] = LimbBase - 1 /\ y[i] = 0)
              /\ i = k => y[i] = x[i] + 1 /\ x[i] < LimbBase - 1
              /\ i > k => y[i] = x[i]

\* The 16-bit control id of a buffer: bytes[6] high, bytes[7] low
ControlId(message) == message[7] * 256 + message[8]

\* An 11-byte buffer that starts with 0xF0
IsVendorFrame(message) == Len(message) = 11 /\ message[1] = \hF0

\* The step is a call of map: the callback received one more message
MapCalled == inbox' # inbox

\* The send calls of the step
NewSends == SubSeq(port', Len(port) + 1, Len(port'))

\* C1: for an 11-byte buffer starting with 0xF0 whose control id is a key of
\* the registry, map issues exactly one send, of 3 bytes, whose controller
\* byte is the slider's cc id and whose value byte is the slider's scaling
\* of bytes[8] masked to 7 bits (the linear interpolation itself for a value
\* inside the slider's source range); when the connection accepts it, the
\* translated-event counter advances by one.
C1_MappedFrameTranslated ==
    [][(MapCalled /\ IsVendorFrame(inbox'[Len(inbox')])
        /\ ControlId(inbox'[Len(inbox')]) \in DOMAIN sliders) =>
          LET message == inbox'[Len(inbox')]
              slider == sliders[ControlId(message)]
              scaled == ValueInOtherRange(slider.sysex_range,
                                          AsMidiValue(message[9]),
                                          slider.cc_range)
          IN  /\ Len(NewSends) = 1
              /\ Len(NewSends[1].bytes) = 3
              /\ NewSends[1].bytes[2] = slider.cc_id
              /\ NewSends[1].bytes[3] = (scaled + 256) % 128
              /\ message[9] \in slider.sysex_range.lo .. slider.sysex_range.hi
                    => NewSends[1].bytes[3] =
                          slider.cc_range.lo
                          + ((message[9] - slider.sysex_range.lo)
                             * (slider.cc_range.hi - slider.cc_range.lo))
                            \div (slider.sysex_range.hi - slider.sysex_range.lo)
              /\ NewSends[1].ok => IsNextU64(cc_event_count, cc_event_count')
              /\ IsNextU64(event_count, event_count')]_vars

\* C1 witness: the frame of slider 0x0319 with value 50 was sent as CC 3
\* with value 63 on channel 1, and the translated counter went from 0 to 1
C1_Witness ==
    /\ inbox = <<Frame(\h0319, 50)>>
    /\ Len(port) = 1
    /\ port[1].bytes = <<\hB1, 3, 63>>
    /\ port[1].ok
    /\ cc_event_count = U64Of(1)

C3_OtherBytesPassedThrough ==
    [][(MapCalled /\ ~IsVendorFrame(inbox'[Len(inbox')])) =>
          LET message == inbox'[Len(inbox')]
          IN  /\ ~FromBytes(message).ok
              /\ last'.sysex = <<>>
              /\ Len(NewSends) = 1
              /\ NewSends[1].bytes = message
              /\ ~NewSends[1].cc
              /\ cc_event_count' = cc_event_count]_vars

\* C3 witness: the empty buffer was received and passed through
C3_Witness ==
    /\ inbox = << <<>> >>
    /\ Len(port) = 1
    /\ port[1].bytes = <<>>
    /\ port[1].ok
    /\ phase = "mapping"

\* What map sends for a message: nothing for an unmapped frame, the encoded
\* ControlMessage for a mapped one, the message itself for anything else
Outcome(message) ==
    IF ~IsVendorFrame(message) THEN <<message>>
    ELSE IF ControlId(message) \notin DOMAIN sliders THEN <<>>
    ELSE LET slider == sliders[ControlId(message)]
         IN  <<ToBytes(ControlMessageNew(
                   slider.cc_id,
                   SysexValueAsCcValue(slider, AsMidiValue(message[9])),
                   channel))>>

\* C8: a counter at u64::MAX becomes 0 at its next increment and the call
\* goes on as for any other counter value: the message is translated,
\* dropped or passed through, and a translation accepted by the connection
\* takes the translated-event counter from u64::MAX to 0 as well.
C8_CountersWrap ==
    [][MapCalled =>
          LET message == inbox'[Len(inbox')]
          IN  /\ event_count = U64Max => event_count' = U64Zero
              /\ (event_count = U64Max \/ cc_event_count = U64Max) =>
                    /\ [i \in DOMAIN NewSends |-> NewSends[i].bytes]
                           = Outcome(message)
                    /\ phase' = IF \A i \in DOMAIN NewSends : NewSends[i].ok
                                THEN "mapping" ELSE "aborted"
              /\ (cc_event_count = U64Max /\ NewSends # <<>>
                  /\ \A i \in DOMAIN NewSends : NewSends[i].cc /\ NewSends[i].ok)
                    => cc_event_count' = U64Zero
              /\ cc_event_count' # cc_event_count
                    => IsNextU64(cc_event_count, cc_event_count')]_vars

\* C8 witness: one call took both counters to 0 (from u64::MAX, the only
\* value with successor 0) and the translation was sent
C8_Witness ==
    /\ Len(inbox) = 1
    /\ event_count = U64Zero
    /\ cc_event_count = U64Zero
    /\ Len(port) = 1
    /\ port[1].cc
    /\ port[1].ok
    /\ phase = "mapping"

---------------------------------------------------------------------------
(* Properties of a run of the program (Spec)                               *)

\* C6: the value the Range Model hands to the CC encoder is already a 7-bit
\* value, for every registered slider and every raw value byte of a frame,
\* so that masking it with 0x7F does not change it.
C6_ScaledValueIs7Bit ==
    last.cc # <<>> =>
        /\ last.cc[1].value \in 0 .. 127
        /\ BitAndI8(last.cc[1].value, \h7F) = last.cc[1].value

\* C7: construction of the registry rejects or flags a table in which a
\* control id occurs twice: with such a table the Mapper never goes into
\* service, and no insert call replaces an earlier slider.
C7_DuplicateIdsRejected ==
    phase # "start" =>
        /\ \A i, j \in DOMAIN SliderTable :
              SliderTable[i][1] = SliderTable[j][1] => i = j
        /\ Cardinality(DOMAIN sliders) = Len(SliderTable)

\* The send calls that the connection accepted
Accepted == SelectSeq(port, LAMBDA e : e.ok)

\* The number of translated ControlMessages that the connection accepted
CcWrites == Cardinality({i \in DOMAIN port : port[i].cc /\ port[i].ok})

\* C9: a failed send is fatal.  It is the last send and belongs to the last
\* message received (no later message is processed or written), the Mapper
\* is gone, the total-event counter includes the failing message and the
\* translated-event counter counts only the translations that were accepted
\* before it.
C9_SendFailureIsFatal ==
    \A i \in DOMAIN port :
        ~port[i].ok =>
            /\ phase = "aborted"
            /\ i = Len(port)
            /\ port[i].event = Len(inbox)
            /\ event_count = U64Of(Len(inbox))
            /\ cc_event_count = U64Of(CcWrites)

\* C9 witness: after a passthrough that was accepted, the send of a
\* translated frame failed
C9_Witness ==
    /\ phase = "aborted"
    /\ inbox = <<NoteOn, Frame(\h0319, 50)>>
    /\ Len(port) = 2
    /\ port[1].ok
    /\ ~port[2].ok
    /\ port[2].cc
    /\ event_count = U64Of(2)
    /\ cc_event_count = U64Zero

RECURSIVE Outcomes(_, _)
\* The outcomes of the first n messages of a sequence, in order
Outcomes(messages, n) ==
    IF n = 0 THEN <<>>
    ELSE Outcomes(messages, n - 1) \o Outcome(messages[n])

\* C10: the writes to the sink are the in-order concatenation of the
\* outcomes of the messages received (up to a message whose send failed);
\* each message causes at most one send and sends follow the order of the
\* messages; the total-event counter is the number of messages received and
\* the translated-event counter the number of CC writes.
C10_WritesFollowMessages ==
    phase # "start" =>
        LET failed == port # <<>> /\ ~port[Len(port)].ok
            complete == IF failed THEN Len(inbox) - 1 ELSE Len(inbox)
        IN  /\ [i \in DOMAIN Accepted |-> Accepted[i].bytes]
                   = Outcomes(inbox, complete)
            /\ \A i \in DOMAIN port : port[i].event \in 1 .. Len(inbox)
            /\ \A i, j \in DOMAIN port : i < j => port[i].event < port[j].event
            /\ \A i \in DOMAIN port :
                  <<port[i].bytes>> = Outcome(inbox[port[i].event])
            /\ event_count = U64Of(Len(inbox))
            /\ cc_event_count = U64Of(CcWrites)

\* C10 witness: a mapped frame, an unmapped frame and a note-on were
\* received; the sink got the CC and the note-on, in that order
C10_Witness ==
    /\ inbox = <<Frame(\h0319, 50), Frame(\h0119, 50), NoteOn>>
    /\ [i \in DOMAIN port |-> port[i].bytes] = << <<\hB1, 3, 63>>, NoteOn >>
    /\ \A i \in DOMAIN port : port[i].ok
    /\ event_count = U64Of(3)
    /\ cc_event_count = U64Of(1)

====
